---------------------------- MODULE Spec2Model ----------------------------
(***************************************************************************)
(* Model of the matchmaking and session-relay server of the maze / pong /  *)
(* snake game (src/server/index.js).  Every socket.io event handler is one *)
(* atomic action (node's single-threaded run-to-completion dispatch).      *)
(*                                                                         *)
(* Library behaviour that the handlers rely on (socket.io rooms):          *)
(*   socket.join(r)        adds the socket to room r;                      *)
(*   io.to(r).emit         reaches every socket currently in room r;       *)
(*   socket.to(r).emit     reaches every socket in room r but the sender;  *)
(*   a socket has left all its rooms when its "disconnect" handler runs.   *)
(*                                                                         *)
(* Left out of the state because the server writes but never reads them:   *)
(* socket.gameType, gameInfo.mazeSeed, gameInfo.players[i].username.       *)
(*                                                                         *)
(* Spec, SpecLobby and SpecMaze drive the server with any event a socket   *)
(* can send.  SpecPong adds the browser client of the pong game            *)
(* (WebSocketContext.tsx, PongGame.tsx): the pong events the server gets   *)
(* are those the game loop emits, kept in order per socket until handled,  *)
(* and what the server emits is received when it is emitted.  Of the game  *)
(* loop only the ticks that score a point are modelled; ball and paddle    *)
(* positions are not.  SpecRelay puts the events in flight, in order on     *)
(* each connection, between the clients' game components and the server.   *)
(* SpecNames is the maze game with requests that carry any username.       *)
(* SpecMazeClient adds the browser client of the maze game (App, MazeGame): *)
(* an event handler, the render after it and the effects of that render    *)
(* are one step; of the player's walk only the cell it ends at is kept.    *)
(*                                                                         *)
(* SpecGenerate is the maze generator of the client (mazeGenerator.ts):    *)
(* generateMaze called twice, one call after the other, with the same      *)
(* arguments; each loop iteration is one step.  Math.sin is taken to be a  *)
(* function: of its value only the index drawn from it is kept.            *)
(***************************************************************************)
EXTENDS Integers, Sequences, FiniteSets, TLC

\* ------------------------------------------------------------------ bounds
MaxRequests == 2        \* find-match requests handled in one behaviour of Spec
MaxLobbyRequests == 4   \* find-match requests handled in one behaviour of SpecLobby
MaxMazeRequests == 4    \* find-match requests handled in one behaviour of SpecMaze
MaxPongRequests == 2    \* find-match requests handled in one behaviour of SpecPong
MaxTime == 1            \* largest value of the clock Date.now()
MaxScore == 1           \* reported snake scores are 0..MaxScore
MaxRelayRequests == 2   \* find-match requests handled in one behaviour of SpecRelay
MaxSends == 3           \* relayable events the clients send in one behaviour of SpecRelay
MaxNameRequests == 2    \* find-match requests handled in one behaviour of SpecNames
MaxClientRequests == 2  \* find-match requests handled in one behaviour of SpecMazeClient
MaxMoves == 2           \* moves the players make in one behaviour of SpecMazeClient
MaxRows == 2            \* generateMaze is called with rows in 1..MaxRows
MaxCols == 3            \* generateMaze is called with cols in 1..MaxCols

\* --------------------------------------------------------------- universes
\* connection ids, named in the order in which the connections are made
Sockets == <<"s1", "s2", "s3">>
SocketIds == {Sockets[i] : i \in 1..Len(Sockets)}
GameTypes == {"maze", "snake", "pong"}
RequestTypes == GameTypes \cup {"chess"}
\* the display name the client of a connection sends
ClientName == [s \in SocketIds |-> CASE s = "s1" -> "ann" [] s = "s2" -> "bob" [] OTHER -> "cat"]
Usernames == {ClientName[s] : s \in SocketIds}
Undefined == "undefined"
NoGame == 0
\* Math.floor(Math.random() * 1000000): the two ends of its range
MazeSeeds == {0, 999999}
Scores == 0..MaxScore
\* seed?: number left out (undefined)
NoSeed == -1
\* what a client sends as position, paddle y or game state is opaque to the server
Payloads == {"m1"}

VARIABLES
    conn,            \* socket -> "new" | "connected" | "disconnected"
    username,        \* socket.username
    rooms,           \* socket -> set of room ids the socket has joined
    waitingPlayers,  \* game type -> queue of waiting sockets
    activeGames,     \* socket -> reference to a gameInfo (index of games), or NoGame
    games,           \* the gameInfo objects created so far, by reference
    now,             \* Date.now()
    emitted,         \* the emit calls of the handler that ran last, in order
    requests,        \* number of find-match requests handled
    gameOvers,       \* history: game-over broadcasts per gameInfo, 2 for two or more
    hist,            \* history: the first three find-match events, none after a disconnect
    clients,         \* socket -> state of the browser client that owns the socket
    gen              \* the arguments and the calls of generateMaze in a client

vars == <<conn, username, rooms, waitingPlayers, activeGames, games,
          now, emitted, requests, gameOvers, hist, clients, gen>>

\* ----------------------------------------------------------------- helpers
\* `game-${socket.id}-${opponent.id}`
RoomId(sid, oid) == <<"game", sid, oid>>

\* the sockets currently in room r
InRoom(r) == {s \in SocketIds : r \in rooms[s]}

\* io.to(r).emit(event, payload)
ToRoom(r, event, payload) == [to |-> InRoom(r), event |-> event, payload |-> payload]

\* socket.to(r).emit(event, payload)
ToOthers(s, r, event, payload) ==
    [to |-> InRoom(r) \ {s}, event |-> event, payload |-> payload]

\* socket.emit(event, payload)
ToSocket(s, event, payload) == [to |-> {s}, event |-> event, payload |-> payload]

\* finishTime / 1000, kept exact as whole seconds and milliseconds
Seconds(ms) == [s |-> ms \div 1000, ms |-> ms % 1000]

NoPayload == [none |-> TRUE]

\* history: the find-match events handled so far, while they are at most three
\* and no socket has disconnected; dropped after
Dropped == [events |-> <<>>, more |-> TRUE]

Record(h, e) ==
    IF h.more \/ Len(h.events) >= 3
        THEN Dropped
        ELSE [h EXCEPT !.events = Append(@, e)]

Counted(n) == IF n >= 2 THEN 2 ELSE n + 1

\* queue.shift(): the queue that is left
ShiftForgotten(q) == q
Shifted(q) == Tail(q)

\* playerNumber in the match-found sent to the requester and to the popped opponent
PlayerNumbersSwapped == [requester |-> 2, opponent |-> 1]
PlayerNumbers == [requester |-> 1, opponent |-> 2]

\* gameInfo.scores[id] = entry: a new key goes last, an old key keeps its place
SetScoreUnkeyed(scores, entry) == Append(scores, entry)
SetScore(scores, entry) ==
    IF \E i \in 1..Len(scores) : scores[i].id = entry.id
        THEN [i \in 1..Len(scores) |-> IF scores[i].id = entry.id THEN entry ELSE scores[i]]
        ELSE Append(scores, entry)

\* scores[0].score > scores[1].score ? scores[0].username : scores[1].username
SnakeWinnerLess(scores) ==
    IF scores[1].score < scores[2].score THEN scores[1].username ELSE scores[2].username
SnakeWinnerTieFirst(scores) ==
    IF scores[1].score >= scores[2].score THEN scores[1].username ELSE scores[2].username
SnakeWinner(scores) ==
    IF scores[1].score > scores[2].score THEN scores[1].username ELSE scores[2].username

\* ------------------------------------------------------------ browser client
\* PongGame.tsx
WINNING_SCORE == 5

\* WebSocketContext state (matchInfo, gameOverInfo, opponentDisconnected; null is
\* playerNumber 0 / Undefined), PongGame state (scores, gameOver), the events
\* the socket has emitted that the server has not handled yet (outbox) and the
\* events the server has emitted to the socket that its listeners have not
\* been called with yet (inbox); history: the number of relayable events sent
\* and the relayed payloads the listeners were called with, in order
\* App state (gameState) and MazeGame state (playerPosition, gameOver as
\* mazeGameOver, winner); history: the positions at which the mounted MazeGame
\* emitted player-finished (finishes)
ClientInit ==
    [matchInfo |-> [playerNumber |-> 0, opponent |-> Undefined, gameType |-> Undefined],
     gameOverInfo |-> Undefined,
     opponentDisconnected |-> FALSE,
     player1Score |-> 0,
     player2Score |-> 0,
     gameOver |-> FALSE,
     outbox |-> <<>>,
     inbox |-> <<>>,
     sent |-> 0,
     seen |-> <<>>,
     gameState |-> "username",
     playerPosition |-> <<0, 0>>,
     mazeGameOver |-> FALSE,
     winner |-> Undefined,
     finishes |-> <<>>]

\* matchInfo?.playerNumber === 1
IsPlayer1(c) == c.matchInfo.playerNumber = 1

\* matchInfo?.opponent.username || 'Opponent'
OpponentName(c) ==
    IF c.matchInfo.opponent = Undefined THEN "Opponent" ELSE c.matchInfo.opponent

\* newState.player1Score >= WINNING_SCORE ? username : opponentName
WinnerNameSwapped(name, c, newState) ==
    IF newState.player1Score >= WINNING_SCORE THEN OpponentName(c) ELSE name
WinnerName(name, c, newState) ==
    IF newState.player1Score >= WINNING_SCORE THEN name ELSE OpponentName(c)

\* the client's handler of one event received from the server; match-found
\* also mounts a new PongGame (scores 0, gameOver by its gameOverInfo effect)
Receive(c, m) ==
    CASE m.event = "match-found" ->
            [c EXCEPT !.matchInfo = [playerNumber |-> m.payload.playerNumber,
                                     opponent |-> m.payload.opponent.username,
                                     gameType |-> m.payload.gameType],
                      !.player1Score = 0,
                      !.player2Score = 0,
                      !.gameOver = (c.gameOverInfo # Undefined \/ c.opponentDisconnected)]
      [] m.event = "game-over" ->
            [c EXCEPT !.gameOverInfo = m.payload.winner, !.gameOver = TRUE]
      [] m.event = "opponent-disconnected" ->
            [c EXCEPT !.opponentDisconnected = TRUE, !.gameOver = TRUE]
      [] m.event = "pong-game-state" ->
            IF IsPlayer1(c)
                THEN c
                ELSE [c EXCEPT !.player1Score = m.payload.value.player1Score,
                               !.player2Score = m.payload.value.player2Score]
      [] OTHER -> c

\* the events of em received, in order, by the clients they were sent to
RECURSIVE Delivered(_, _)
Delivered(cs, em) ==
    IF em = <<>>
        THEN cs
        ELSE Delivered([x \in SocketIds |->
                           IF x \in Head(em).to THEN Receive(cs[x], Head(em)) ELSE cs[x]],
                       Tail(em))

\* no call of generateMaze(rows, cols, seed) has been made yet
Uncalled(rows, cols, seed) ==
    [rows |-> rows, cols |-> cols, seed |-> seed, sin |-> {},
     calls |-> [i \in 1..2 |-> [pc |-> "idle", maze |-> <<>>, stack |-> <<>>,
                                rng |-> NoSeed, removed |-> 0]]]

\* the server has started and no socket has connected
Listening ==
    /\ clients = [s \in SocketIds |-> ClientInit]
    /\ conn = [s \in SocketIds |-> "new"]
    /\ username = [s \in SocketIds |-> Undefined]
    /\ rooms = [s \in SocketIds |-> {}]
    /\ waitingPlayers = [g \in GameTypes |-> <<>>]
    /\ activeGames = [s \in SocketIds |-> NoGame]
    /\ games = <<>>
    /\ now = 0
    /\ emitted = <<>>
    /\ requests = 0
    /\ gameOvers = <<>>
    /\ hist = [events |-> <<>>, more |-> FALSE]

\* the maze component has its constants, generateMaze(20, 25), and has not
\* been mounted
Init ==
    /\ Listening
    /\ gen = Uncalled(20, 25, NoSeed)

\* io.on("connection"): a new socket; only the log line and handler registration
Connect(i) ==
    /\ conn[Sockets[i]] = "new"
    /\ \A j \in 1..(i - 1) : conn[Sockets[j]] # "new"
    /\ conn' = [conn EXCEPT ![Sockets[i]] = "connected"]
    /\ emitted' = <<>>
    /\ UNCHANGED <<username, rooms, waitingPlayers, activeGames, games,
                   now, requests, gameOvers, hist>>

\* Date.now(): the clock has not run backwards since it was last read
DateNow == now..MaxTime

\* the pairing branch of find-match: the queue of game type g is non-empty
Pair(s, u, g, seed, time) ==
    LET queue == waitingPlayers[g]
        opponent == Head(queue)
        roomId == RoomId(s, opponent)
        \* socket.username was assigned before opponent.username is read
        oppName == IF opponent = s THEN u ELSE username[opponent]
        gameInfo == [roomId |-> roomId, gameType |-> g, players |-> <<s, opponent>>,
                     startTime |-> time, scores |-> <<>>]
        ref == Len(games) + 1
    IN  /\ now' = time
        /\ waitingPlayers' = [waitingPlayers EXCEPT ![g] = Shifted(queue)]
        /\ rooms' = [x \in SocketIds |->
                        IF x \in {s, opponent} THEN rooms[x] \cup {roomId} ELSE rooms[x]]
        /\ games' = Append(games, gameInfo)
        /\ gameOvers' = Append(gameOvers, 0)
        /\ activeGames' = [x \in SocketIds |->
                              IF x \in {s, opponent} THEN ref ELSE activeGames[x]]
        /\ emitted' = << ToSocket(s, "match-found",
                            [roomId |-> roomId, mazeSeed |-> seed, gameType |-> g,
                             opponent |-> [id |-> opponent, username |-> oppName],
                             playerNumber |-> PlayerNumbers.requester]),
                         ToSocket(opponent, "match-found",
                            [roomId |-> roomId, mazeSeed |-> seed, gameType |-> g,
                             opponent |-> [id |-> s, username |-> u],
                             playerNumber |-> PlayerNumbers.opponent]) >>

\* the else branch of find-match: no waiting player (or no such queue)
Enqueue(s, g) ==
    /\ waitingPlayers' = IF g \in GameTypes
                            THEN [waitingPlayers EXCEPT ![g] = Append(@, s)]
                            ELSE waitingPlayers
    /\ emitted' = << ToSocket(s, "waiting-for-match", NoPayload) >>
    /\ UNCHANGED <<rooms, games, gameOvers, activeGames, now>>

\* if (queue && queue.length > 0)
QueueCrowded(g) == g \in GameTypes /\ Len(waitingPlayers[g]) > 1
QueueNonEmpty(g) == g \in GameTypes /\ Len(waitingPlayers[g]) > 0

\* socket.on("find-match", ({ username, gameType }) => ...)
FindMatch(s, u, g) ==
    /\ conn[s] = "connected"
    /\ requests' = requests + 1
    /\ username' = [username EXCEPT ![s] = u]
    /\ IF QueueNonEmpty(g)
          THEN \E seed \in MazeSeeds, time \in DateNow : Pair(s, u, g, seed, time)
          ELSE Enqueue(s, g)
    /\ hist' = Record(hist, [event |-> "find-match", socket |-> s, gameType |-> g])
    /\ UNCHANGED conn

\* a handler that finds nothing to do
IgnoreAnswered ==
    /\ emitted' = << [to |-> SocketIds, event |-> "error", payload |-> NoPayload] >>
    /\ UNCHANGED <<conn, username, rooms, waitingPlayers, activeGames, games,
                   now, requests, gameOvers, hist>>
Ignore ==
    /\ emitted' = <<>>
    /\ UNCHANGED <<conn, username, rooms, waitingPlayers, activeGames, games,
                   now, requests, gameOvers, hist>>

\* a handler that only forwards to the other sockets of the sender's room
Relay(s, event, payload) ==
    /\ emitted' = << ToOthers(s, games[activeGames[s]].roomId, event, payload) >>
    /\ UNCHANGED <<conn, username, rooms, waitingPlayers, activeGames, games,
                   now, requests, gameOvers, hist>>

\* io.to(gameInfo.roomId).emit("game-over", { winner, time })
GameOver(ref, winner, time) ==
    /\ emitted' = << ToRoom(games[ref].roomId, "game-over",
                            [winner |-> winner, time |-> time]) >>
    /\ gameOvers' = [gameOvers EXCEPT ![ref] = Counted(@)]

\* socket.on("player-move", (position) => ...)
PlayerMove(s, position) ==
    /\ conn[s] = "connected"
    /\ IF activeGames[s] # NoGame
          THEN Relay(s, "opponent-move", [value |-> position])
          ELSE Ignore

\* socket.on("player-finished", () => ...)
PlayerFinished(s) ==
    /\ conn[s] = "connected"
    /\ IF activeGames[s] # NoGame
          THEN \E time \in DateNow :
                 LET gameInfo == games[activeGames[s]]
                     finishTime == time - gameInfo.startTime
                 IN  /\ now' = time
                     /\ GameOver(activeGames[s], username[s], Seconds(finishTime))
                     /\ UNCHANGED <<conn, username, rooms, waitingPlayers, activeGames,
                                    games, requests, hist>>
          ELSE Ignore

\* gameInfo && gameInfo.gameType === g
InGameOf(s, g) == activeGames[s] # NoGame /\ games[activeGames[s]].gameType = g

\* socket.on("pong-paddle-move", (y) => ...)
PongPaddleMove(s, y) ==
    /\ conn[s] = "connected"
    /\ IF InGameOf(s, "pong")
          THEN Relay(s, "pong-opponent-paddle", [value |-> y])
          ELSE Ignore

\* socket.on("pong-update-state", (state) => ...)
PongUpdateState(s, state) ==
    /\ conn[s] = "connected"
    /\ IF InGameOf(s, "pong")
          THEN Relay(s, "pong-game-state", [value |-> state])
          ELSE Ignore

\* socket.on("pong-game-over", (winner) => ...)
PongGameOver(s, winner) ==
    /\ conn[s] = "connected"
    /\ IF InGameOf(s, "pong")
          THEN /\ GameOver(activeGames[s], winner, Seconds(0))
               /\ UNCHANGED <<conn, username, rooms, waitingPlayers, activeGames,
                              games, now, requests, hist>>
          ELSE Ignore

\* socket.on("snake-update-state", (state) => ...)
SnakeUpdateState(s, state) ==
    /\ conn[s] = "connected"
    /\ IF InGameOf(s, "snake")
          THEN Relay(s, "snake-opponent-state", [value |-> state])
          ELSE Ignore

\* socket.on("snake-game-over", ({ username, score }) => ...)
SnakeGameOver(s, u, score) ==
    /\ conn[s] = "connected"
    /\ IF InGameOf(s, "snake")
          THEN LET ref == activeGames[s]
                   scores == SetScore(games[ref].scores,
                                      [id |-> s, username |-> u, score |-> score])
               IN  /\ games' = [games EXCEPT ![ref].scores = scores]
                   /\ IF Len(scores) = 2
                         THEN GameOver(ref, SnakeWinner(scores), Seconds(0))
                         ELSE /\ emitted' = <<>>
                              /\ UNCHANGED gameOvers
                   /\ UNCHANGED <<conn, username, rooms, waitingPlayers, activeGames,
                                  now, requests, hist>>
          ELSE Ignore

\* queue.findIndex((p) => p.id === socket.id) and, when it is not -1,
\* queue.splice(waitingIndex, 1): the queue that is left
SpliceForgotten(q, s) == q
Spliced(q, s) ==
    IF \E i \in 1..Len(q) : q[i] = s
        THEN LET waitingIndex == CHOOSE i \in 1..Len(q) :
                                    q[i] = s /\ \A j \in 1..(i - 1) : q[j] # s
             IN  SubSeq(q, 1, waitingIndex - 1) \o SubSeq(q, waitingIndex + 1, Len(q))
        ELSE q

\* socket.on("disconnect")
Disconnect(s) ==
    LET ref == activeGames[s]
        members == {games[ref].players[i] : i \in 1..2}
    IN  /\ conn[s] = "connected"
        /\ conn' = [conn EXCEPT ![s] = "disconnected"]
        \* the library has already taken the socket out of its rooms
        /\ rooms' = [rooms EXCEPT ![s] = {}]
        /\ waitingPlayers' = [g \in GameTypes |-> Spliced(waitingPlayers[g], s)]
        /\ IF ref # NoGame
              THEN /\ emitted' = << [to |-> InRoom(games[ref].roomId) \ {s},
                                     event |-> "opponent-disconnected",
                                     payload |-> NoPayload] >>
                   /\ activeGames' = [x \in SocketIds |->
                                         IF x \in members THEN NoGame ELSE activeGames[x]]
              ELSE /\ emitted' = <<>>
                   /\ UNCHANGED activeGames
        /\ hist' = Dropped
        /\ UNCHANGED <<username, games, now, requests, gameOvers>>

Next ==
    \/ \E i \in 1..Len(Sockets) : Connect(i) /\ UNCHANGED <<clients, gen>>
    \/ \E s \in SocketIds, g \in GameTypes :
          requests < MaxRequests /\ FindMatch(s, ClientName[s], g) /\ UNCHANGED <<clients, gen>>
    \/ \E s \in SocketIds, p \in Payloads : PlayerMove(s, p) /\ UNCHANGED <<clients, gen>>
    \/ \E s \in SocketIds : PlayerFinished(s) /\ UNCHANGED <<clients, gen>>
    \/ \E s \in SocketIds, p \in Payloads : PongPaddleMove(s, p) /\ UNCHANGED <<clients, gen>>
    \/ \E s \in SocketIds, p \in Payloads : PongUpdateState(s, p) /\ UNCHANGED <<clients, gen>>
    \/ \E s \in SocketIds, w \in Usernames : PongGameOver(s, w) /\ UNCHANGED <<clients, gen>>
    \/ \E s \in SocketIds, p \in Payloads : SnakeUpdateState(s, p) /\ UNCHANGED <<clients, gen>>
    \/ \E s \in SocketIds, sc \in Scores : SnakeGameOver(s, ClientName[s], sc) /\ UNCHANGED <<clients, gen>>
    \/ \E s \in SocketIds : Disconnect(s) /\ UNCHANGED <<clients, gen>>

\* the whole server, its requests being for the three game types
Spec == Init /\ [][Next]_vars

\* matchmaking alone, with more requests and with requests for an unknown game
\* type: the gameplay handlers change neither queues nor registry
Lobby ==
    \/ \E i \in 1..Len(Sockets) : Connect(i) /\ UNCHANGED <<clients, gen>>
    \/ \E s \in SocketIds, g \in RequestTypes :
          requests < MaxLobbyRequests /\ FindMatch(s, ClientName[s], g) /\ UNCHANGED <<clients, gen>>
    \/ \E s \in SocketIds : Disconnect(s) /\ UNCHANGED <<clients, gen>>

SpecLobby == Init /\ [][Lobby]_vars

\* the maze game alone, with as many requests as the lobby: sessions that follow
\* one another on the same sockets, and the two maze events
Maze ==
    \/ \E i \in 1..Len(Sockets) : Connect(i) /\ UNCHANGED <<clients, gen>>
    \/ \E s \in SocketIds :
          requests < MaxMazeRequests /\ FindMatch(s, ClientName[s], "maze") /\ UNCHANGED <<clients, gen>>
    \/ \E s \in SocketIds, p \in Payloads : PlayerMove(s, p) /\ UNCHANGED <<clients, gen>>
    \/ \E s \in SocketIds : PlayerFinished(s) /\ UNCHANGED <<clients, gen>>
    \/ \E s \in SocketIds : Disconnect(s) /\ UNCHANGED <<clients, gen>>

SpecMaze == Init /\ [][Maze]_vars

\* the maze game with requests that carry any username
Names ==
    \/ \E i \in 1..Len(Sockets) : Connect(i) /\ UNCHANGED <<clients, gen>>
    \/ \E s \in SocketIds, u \in Usernames :
          requests < MaxNameRequests /\ FindMatch(s, u, "maze") /\ UNCHANGED <<clients, gen>>
    \/ \E s \in SocketIds : PlayerFinished(s) /\ UNCHANGED <<clients, gen>>
    \/ \E s \in SocketIds : Disconnect(s) /\ UNCHANGED <<clients, gen>>

SpecNames == Init /\ [][Names]_vars

\* PongGame game loop of the client of socket s: a tick in which the ball goes
\* out behind player 1 (scorer 2) or behind player 2 (scorer 1)
PongPoint(s, scorer) ==
    LET c == clients[s]
        newState == [player1Score |-> c.player1Score + (IF scorer = 1 THEN 1 ELSE 0),
                     player2Score |-> c.player2Score + (IF scorer = 2 THEN 1 ELSE 0)]
        won == newState.player1Score >= WINNING_SCORE \/ newState.player2Score >= WINNING_SCORE
        sent == (IF won
                    THEN << [event |-> "pong-game-over",
                             value |-> WinnerName(ClientName[s], c, newState)] >>
                    ELSE << >>)
                \o << [event |-> "pong-update-state", value |-> newState] >>
    IN  /\ conn[s] = "connected"
        /\ IsPlayer1(c)
        /\ ~c.gameOver
        /\ c.player1Score < WINNING_SCORE
        /\ c.player2Score < WINNING_SCORE
        /\ clients' = [clients EXCEPT ![s] =
                          [c EXCEPT !.player1Score = newState.player1Score,
                                    !.player2Score = newState.player2Score,
                                    !.gameOver = won,
                                    !.outbox = c.outbox \o sent]]
        /\ UNCHANGED <<conn, username, rooms, waitingPlayers, activeGames, games,
                       now, emitted, requests, gameOvers, hist>>

\* the server handles the oldest event emitted by the client of socket s, and
\* the clients receive what the handler emits
ServePong(s) ==
    /\ clients[s].outbox # <<>>
    /\ LET m == Head(clients[s].outbox)
       IN  IF m.event = "pong-game-over"
              THEN PongGameOver(s, m.value)
              ELSE PongUpdateState(s, m.value)
    /\ clients' = Delivered([clients EXCEPT ![s].outbox = Tail(@)], emitted')

\* the pong game played by the clients: the server's pong events are those the
\* game loop emits, and every event the server emits is received
Pong ==
    \/ \E i \in 1..Len(Sockets) : Connect(i) /\ UNCHANGED <<clients, gen>>
    \/ \E s \in SocketIds :
          /\ requests < MaxPongRequests
          /\ FindMatch(s, ClientName[s], "pong")
          /\ clients' = Delivered(clients, emitted')
          /\ UNCHANGED gen
    \/ \E s \in SocketIds, scorer \in 1..2 : PongPoint(s, scorer) /\ UNCHANGED gen
    \/ \E s \in SocketIds : ServePong(s) /\ UNCHANGED gen
    \/ \E s \in SocketIds :
          /\ Disconnect(s)
          /\ clients' = Delivered([clients EXCEPT ![s].outbox = <<>>], emitted')
          /\ UNCHANGED gen

SpecPong == Init /\ [][Pong]_vars

\* the event of its moves that the game component of each game type emits, and
\* the names under which the server forwards them
RelayEvent ==
    [g \in GameTypes |-> CASE g = "maze" -> "player-move"
                            [] g = "pong" -> "pong-paddle-move"
                            [] g = "snake" -> "snake-update-state"]
RelayedEvents == {"opponent-move", "pong-opponent-paddle", "snake-opponent-state"}

\* an event emitted to a socket joins, last, those on their way to its client
ArrivedFirst(inbox, m) == <<m>> \o inbox
Arrived(inbox, m) == Append(inbox, m)

\* the emit calls em of a handler, on their way to the clients they are for
RECURSIVE InFlight(_, _)
InFlight(cs, em) ==
    IF em = <<>>
        THEN cs
        ELSE InFlight([x \in SocketIds |->
                          IF x \in Head(em).to
                              THEN [cs[x] EXCEPT !.inbox = Arrived(@, Head(em))]
                              ELSE cs[x]],
                      Tail(em))

\* the number of moves the clients of the sockets of S have sent
RECURSIVE Sent(_)
Sent(S) ==
    IF S = {}
        THEN 0
        ELSE LET x == CHOOSE x \in S : TRUE
             IN  clients[x].sent + Sent(S \ {x})

\* the game component of the client of socket s, mounted for its matchInfo,
\* emits a move; what it sends is opaque to the server, and is named here by
\* its sender and its number among the events of that sender
SendRelay(s) ==
    LET c == clients[s]
        event == RelayEvent[c.matchInfo.gameType]
    IN  /\ conn[s] = "connected"
        /\ c.matchInfo.playerNumber # 0
        /\ Sent(SocketIds) < MaxSends
        /\ clients' = [clients EXCEPT ![s] =
                          [c EXCEPT !.sent = c.sent + 1,
                                    !.outbox = Append(c.outbox,
                                                      [event |-> event,
                                                       value |-> [from |-> s, n |-> c.sent + 1]])]]
        /\ UNCHANGED <<conn, username, rooms, waitingPlayers, activeGames, games,
                       now, emitted, requests, gameOvers, hist>>

\* the server handles the oldest event emitted by the client of socket s
ServeRelay(s) ==
    /\ clients[s].outbox # <<>>
    /\ LET m == Head(clients[s].outbox)
       IN  CASE m.event = "player-move" -> PlayerMove(s, m.value)
             [] m.event = "pong-paddle-move" -> PongPaddleMove(s, m.value)
             [] m.event = "snake-update-state" -> SnakeUpdateState(s, m.value)
    /\ clients' = InFlight([clients EXCEPT ![s].outbox = Tail(@)], emitted')

\* the listeners of the client of socket x are called with the oldest event on
\* its way to it
Listen(x) ==
    LET c == clients[x]
        m == Head(c.inbox)
        got == Receive([c EXCEPT !.inbox = Tail(c.inbox)], m)
    IN  /\ c.inbox # <<>>
        /\ clients' = [clients EXCEPT ![x] =
                          IF m.event \in RelayedEvents
                              THEN [got EXCEPT !.seen = Append(got.seen, m.payload.value)]
                              ELSE got]
        /\ UNCHANGED <<conn, username, rooms, waitingPlayers, activeGames, games,
                       now, emitted, requests, gameOvers, hist>>

\* the relay between clients while their connections last: events are in
\* flight from a client to the server and from the server to a client, in
\* order on each connection
RelayNext ==
    \/ \E i \in 1..Len(Sockets) : Connect(i) /\ UNCHANGED <<clients, gen>>
    \/ \E s \in SocketIds, g \in GameTypes :
          /\ requests < MaxRelayRequests
          /\ FindMatch(s, ClientName[s], g)
          /\ clients' = InFlight(clients, emitted')
          /\ UNCHANGED gen
    \/ \E s \in SocketIds : SendRelay(s) /\ UNCHANGED gen
    \/ \E s \in SocketIds : ServeRelay(s) /\ UNCHANGED gen
    \/ \E x \in SocketIds : Listen(x) /\ UNCHANGED gen

SpecRelay == Init /\ [][RelayNext]_vars
\* ------------------------------------------------------------ maze generator
\* src/src/utils/mazeGenerator.ts.  A cell is named by <<row, col>>.
Cells(rows, cols) == (0..(rows - 1)) \X (0..(cols - 1))

\* the grid of generateMaze before its loop: all walls up, nothing visited
NewMaze(rows, cols) ==
    [cell \in Cells(rows, cols) |->
        [walls |-> [top |-> TRUE, right |-> TRUE, bottom |-> TRUE, left |-> TRUE],
         visited |-> FALSE]]

\* next.visited = true
MarkForgotten(maze, cell) == maze
Marked(maze, cell) == [maze EXCEPT ![cell].visited = TRUE]

\* getUnvisitedNeighbors: top, right, bottom, left, those in the grid and not
\* visited
GetUnvisitedNeighbors(maze, cell, rows, cols) ==
    LET row == cell[1]
        col == cell[2]
        top == IF row > 0 /\ ~maze[<<row - 1, col>>].visited
                  THEN << <<row - 1, col>> >> ELSE <<>>
        right == IF col < cols - 1 /\ ~maze[<<row, col + 1>>].visited
                    THEN << <<row, col + 1>> >> ELSE <<>>
        bottom == IF row < rows - 1 /\ ~maze[<<row + 1, col>>].visited
                     THEN << <<row + 1, col>> >> ELSE <<>>
        left == IF col > 0 /\ ~maze[<<row, col - 1>>].visited
                   THEN << <<row, col - 1>> >> ELSE <<>>
    IN  top \o right \o bottom \o left

\* removeWallBetween(current, next)
RemoveWallBetweenButRight(maze, current, next) ==
    LET rowDiff == current[1] - next[1]
        colDiff == current[2] - next[2]
    IN  IF rowDiff = 1
           THEN [maze EXCEPT ![current].walls.top = FALSE, ![next].walls.bottom = FALSE]
           ELSE IF rowDiff = -1
                   THEN [maze EXCEPT ![current].walls.bottom = FALSE, ![next].walls.top = FALSE]
                   ELSE IF colDiff = 1
                           THEN [maze EXCEPT ![current].walls.left = FALSE,
                                             ![next].walls.right = FALSE]
                           ELSE maze
RemoveWallBetweenOneSided(maze, current, next) ==
    LET rowDiff == current[1] - next[1]
        colDiff == current[2] - next[2]
    IN  IF rowDiff = 1
           THEN [maze EXCEPT ![current].walls.top = FALSE]
           ELSE IF rowDiff = -1
                   THEN [maze EXCEPT ![current].walls.bottom = FALSE]
                   ELSE IF colDiff = 1
                           THEN [maze EXCEPT ![current].walls.left = FALSE]
                           ELSE IF colDiff = -1
                                   THEN [maze EXCEPT ![current].walls.right = FALSE]
                                   ELSE maze
RemoveWallBetween(maze, current, next) ==
    LET rowDiff == current[1] - next[1]
        colDiff == current[2] - next[2]
    IN  IF rowDiff = 1
           THEN [maze EXCEPT ![current].walls.top = FALSE, ![next].walls.bottom = FALSE]
           ELSE IF rowDiff = -1
                   THEN [maze EXCEPT ![current].walls.bottom = FALSE, ![next].walls.top = FALSE]
                   ELSE IF colDiff = 1
                           THEN [maze EXCEPT ![current].walls.left = FALSE,
                                             ![next].walls.right = FALSE]
                           ELSE IF colDiff = -1
                                   THEN [maze EXCEPT ![current].walls.right = FALSE,
                                                     ![next].walls.left = FALSE]
                                   ELSE maze

\* stack.pop(): the stack that is left
PopForgotten(stack) == stack
Popped(stack) == SubSeq(stack, 1, Len(stack) - 1)

\* the values randomIndex can take.  With a seed it is rng.randomInt(max),
\* Math.floor((x - Math.floor(x)) * max) for x = Math.sin(this.seed++) * 10000:
\* Math.sin being a function, the value for a seed and a max is the one it had
\* before (sin holds those), and any of 0..max-1 the first time.  Without a
\* seed it is Math.floor(Math.random() * max).
RandomIntUnseeded(rng, max, sin) == 0..(max - 1)
RandomInt(rng, max, sin) ==
    IF rng # NoSeed /\ \E t \in sin : t.seed = rng /\ t.max = max
        THEN {t.index : t \in {u \in sin : u.seed = rng /\ u.max = max}}
        ELSE 0..(max - 1)

\* generateMaze is called: the grid is made, the start cell is marked visited
\* and pushed; a call begins when the one before it has returned
Call(i) ==
    /\ gen.calls[i].pc = "idle"
    /\ \A j \in 1..(i - 1) : gen.calls[j].pc = "returned"
    /\ gen' = [gen EXCEPT !.calls[i] =
                  [pc |-> "loop",
                   maze |-> Marked(NewMaze(gen.rows, gen.cols), <<0, 0>>),
                   stack |-> << <<0, 0>> >>,
                   rng |-> gen.seed,
                   removed |-> 0]]
    /\ UNCHANGED <<conn, username, rooms, waitingPlayers, activeGames, games,
                   now, emitted, requests, gameOvers, hist, clients>>

\* one iteration of while (stack.length > 0), and the return when the stack is
\* empty after it; removed counts the calls of removeWallBetween
Step(i) ==
    LET call == gen.calls[i]
        current == call.stack[Len(call.stack)]
        neighbors == GetUnvisitedNeighbors(call.maze, current, gen.rows, gen.cols)
    IN  /\ call.pc = "loop"
        /\ IF Len(neighbors) > 0
              THEN \E randomIndex \in RandomInt(call.rng, Len(neighbors), gen.sin) :
                      LET next == neighbors[randomIndex + 1]
                      IN  gen' = [gen EXCEPT
                                    !.sin = IF call.rng = NoSeed
                                               THEN @
                                               ELSE @ \cup {[seed |-> call.rng,
                                                             max |-> Len(neighbors),
                                                             index |-> randomIndex]},
                                    !.calls[i] =
                                        [call EXCEPT
                                            !.rng = IF call.rng = NoSeed THEN NoSeed ELSE @ + 1,
                                            !.maze = Marked(RemoveWallBetween(@, current, next),
                                                            next),
                                            !.stack = Append(@, next),
                                            !.removed = @ + 1]]
              ELSE gen' = [gen EXCEPT
                             !.calls[i] =
                                 [call EXCEPT
                                     !.stack = Popped(@),
                                     !.pc = IF Len(Popped(call.stack)) > 0
                                               THEN "loop" ELSE "returned"]]
        /\ UNCHANGED <<conn, username, rooms, waitingPlayers, activeGames, games,
                       now, emitted, requests, gameOvers, hist, clients>>

\* generateMaze called twice with the same arguments, rows and cols at least 1
InitGenerate ==
    /\ Listening
    /\ \E rows \in 1..MaxRows, cols \in 1..MaxCols, seed \in MazeSeeds \cup {NoSeed} :
          gen = Uncalled(rows, cols, seed)

Generate ==
    \/ \E i \in 1..2 : Call(i)
    \/ \E i \in 1..2 : Step(i)

SpecGenerate == InitGenerate /\ [][Generate]_vars

\* the loop is synchronous code: once entered it runs on
SpecGenerateFair == SpecGenerate /\ WF_vars(Generate)
\* ------------------------------------------------------------------ claims
\* the two members of a gameInfo
Members(ref) == {games[ref].players[1], games[ref].players[2]}

\* some registry key maps to the gameInfo
Registered(ref) == \E x \in SocketIds : activeGames[x] = ref

\* the number of queue positions that hold socket s
QueueEntries(s) ==
    Cardinality({<<g, i>> \in GameTypes \X (1..MaxLobbyRequests) :
                    i <= Len(waitingPlayers[g]) /\ waitingPlayers[g][i] = s})

\* the emit calls of em that deliver event to socket x
Deliveries(em, event, x) ==
    {i \in 1..Len(em) : em[i].event = event /\ x \in em[i].to}

\* socket x is sent a match-found with playerNumber n among the emit calls em
GotNumber(em, x, n) ==
    \E i \in Deliveries(em, "match-found", x) : em[i].payload.playerNumber = n

FindMatchEvent(s, g) == [event |-> "find-match", socket |-> s, gameType |-> g]

\* C1: every connection is in at most one matchmaking queue, and a connection
\* with a registry entry is in no queue.
C1_QueueOrSession ==
    \A s \in SocketIds :
        /\ QueueEntries(s) <= 1
        /\ activeGames[s] # NoGame => QueueEntries(s) = 0

\* C2: after find-match from three connections a, b, c for one game type, in
\* that order, from the start and with no disconnect, a and b share one session
\* whose members are a and b, c is in no session with them, and c alone is
\* queued for that game type.
C2_Fifo ==
    \A a, b, c \in SocketIds, g \in GameTypes :
        ( /\ a # b /\ a # c /\ b # c
          /\ ~hist.more
          /\ hist.events = <<FindMatchEvent(a, g), FindMatchEvent(b, g), FindMatchEvent(c, g)>> )
        => /\ activeGames[a] # NoGame
           /\ activeGames[b] = activeGames[a]
           /\ Members(activeGames[a]) = {a, b}
           /\ activeGames[c] # activeGames[a]
           /\ \A ref \in 1..Len(games) : c \notin Members(ref)
           /\ waitingPlayers[g] = <<c>>

C2_Witness ==
    \E a, b, c \in SocketIds, g \in GameTypes :
        /\ a # b /\ a # c /\ b # c
        /\ ~hist.more
        /\ hist.events = <<FindMatchEvent(a, g), FindMatchEvent(b, g), FindMatchEvent(c, g)>>
        /\ waitingPlayers[g] = <<c>>
        /\ Len(games) = 1

\* C3: a find-match leaves the registry entry of every connection that is in a
\* session of two connections as it was, and the session it creates, if any,
\* has none of them as a member.
C3_PairedStayPaired ==
    [][ requests' # requests =>
          \A x \in SocketIds :
              (activeGames[x] # NoGame /\ Cardinality(Members(activeGames[x])) = 2) =>
                  /\ activeGames'[x] = activeGames[x]
                  /\ \A ref \in (Len(games) + 1)..Len(games') : x \notin {games'[ref].players[1], games'[ref].players[2]}
      ]_vars

\* C4: when a connection s disconnects, every registered session of s and
\* another connection is registered under no key afterwards, that other member,
\* when it is still connected, is sent exactly one opponent-disconnected, s is
\* sent none, and no game-over is emitted.
C4_DisconnectEndsSession ==
    [][ \A s \in SocketIds :
          (conn[s] = "connected" /\ conn'[s] = "disconnected") =>
              /\ \A i \in 1..Len(emitted') : emitted'[i].event # "game-over"
              /\ Deliveries(emitted', "opponent-disconnected", s) = {}
              /\ \A ref \in 1..Len(games) :
                    (s \in Members(ref) /\ Cardinality(Members(ref)) = 2 /\ Registered(ref)) =>
                        /\ \A x \in SocketIds : activeGames'[x] # ref
                        /\ \A o \in Members(ref) \ {s} :
                              conn[o] = "connected" =>
                                  Cardinality(Deliveries(emitted', "opponent-disconnected", o)) = 1
      ]_vars

\* C8 as claimed: on pairing, the connection popped from the queue is sent
\* playerNumber 1 and the requester playerNumber 2.
C8_PoppedIsPlayerOne ==
    [][ \A s \in SocketIds, g \in GameTypes :
          (FindMatch(s, ClientName[s], g) /\ Len(waitingPlayers[g]) > 0) =>
              /\ GotNumber(emitted', Head(waitingPlayers[g]), 1)
              /\ GotNumber(emitted', s, 2)
      ]_vars

\* C8 as amended: on pairing, the requester is sent playerNumber 1 and the
\* connection popped from the queue playerNumber 2.
C8_RequesterIsPlayerOne ==
    [][ \A s \in SocketIds, g \in GameTypes :
          (FindMatch(s, ClientName[s], g) /\ Len(waitingPlayers[g]) > 0) =>
              /\ GotNumber(emitted', s, 1)
              /\ GotNumber(emitted', Head(waitingPlayers[g]), 2)
              /\ Len(emitted') = 2
      ]_vars

C8_Witness ==
    /\ Len(emitted) = 2
    /\ emitted[1].event = "match-found" /\ emitted[2].event = "match-found"
    /\ emitted[1].to # emitted[2].to
    /\ emitted[1].payload.playerNumber = 1
    /\ emitted[2].payload.playerNumber = 2
    /\ emitted[2].to = {emitted[1].payload.opponent.id}
    /\ \A g \in GameTypes : Len(waitingPlayers[g]) = 0
\* a session has ended: it has broadcast game-over, or a member has disconnected
Ended(ref) ==
    \/ gameOvers[ref] > 0
    \/ \E m \in Members(ref) : conn[m] = "disconnected"

\* C5: a session that has broadcast game-over is registered under neither
\* member's connection id (under no key at all).
C5_GameOverUnregisters ==
    \A ref \in 1..Len(games) :
        gameOvers[ref] > 0 => \A x \in SocketIds : activeGames[x] # ref

\* C6: a player-move from a connection that was a member of an ended session,
\* and is in no session that has not ended, delivers nothing to any connection
\* and changes no server state.
C6_EndedSessionsSilent ==
    [][ \A s \in SocketIds, p \in Payloads :
          ( /\ PlayerMove(s, p)
            /\ \E ref \in 1..Len(games) : s \in Members(ref) /\ Ended(ref)
            /\ activeGames[s] # NoGame => Ended(activeGames[s]) )
          => /\ \A i \in 1..Len(emitted') : emitted'[i].to = {}
             /\ UNCHANGED <<conn, username, rooms, waitingPlayers, activeGames, games>>
      ]_vars

\* C7: a maze session broadcasts game-over at most once.
C7_MazeGameOverOnce ==
    \A ref \in 1..Len(games) :
        games[ref].gameType = "maze" => gameOvers[ref] <= 1

\* C9: once both members of a snake session have reported, and game-over has
\* so been broadcast, a further snake-game-over report broadcasts no other.
C9_SnakeGameOverOnce ==
    [][ \A s \in SocketIds, sc \in Scores :
          ( /\ SnakeGameOver(s, ClientName[s], sc)
            /\ InGameOf(s, "snake")
            /\ Len(games[activeGames[s]].scores) = 2 )
          => /\ gameOvers' = gameOvers
             /\ \A i \in 1..Len(emitted') : emitted'[i].event # "game-over"
      ]_vars

\* the entry of the greater score among two entries of different scores
Greater(scores) ==
    CHOOSE e \in {scores[1], scores[2]} : \A f \in {scores[1], scores[2]} : e.score >= f.score

\* C10: a game-over broadcast by a snake-game-over report that leaves the
\* session with the scores of both members, the two scores being different,
\* names as winner the username reported with the strictly greater score.
C10_GreaterScoreWins ==
    [][ \A i \in 1..Len(emitted') :
          emitted'[i].event = "game-over" =>
            \A s \in SocketIds :
              ( /\ InGameOf(s, "snake")
                /\ Len(games') = Len(games)
                /\ Len(games'[activeGames[s]].scores) = 2
                /\ games'[activeGames[s]].scores[1].score # games'[activeGames[s]].scores[2].score
                /\ \E sc \in Scores : SnakeGameOver(s, ClientName[s], sc) )
              => emitted'[i].payload.winner = Greater(games'[activeGames[s]].scores).username
      ]_vars

C10_Witness ==
    \E ref \in 1..Len(games) :
        /\ games[ref].gameType = "snake"
        /\ Len(games[ref].scores) = 2
        /\ games[ref].scores[1].score > games[ref].scores[2].score
        /\ games[ref].scores[1].username # games[ref].scores[2].username
        /\ gameOvers[ref] = 1
        /\ emitted = << [to |-> Members(ref), event |-> "game-over",
                         payload |-> [winner |-> games[ref].scores[1].username,
                                      time |-> Seconds(0)]] >>
\* a snake-game-over report of socket s, handled for the snake session of s
SnakeReport(s) ==
    /\ InGameOf(s, "snake")
    /\ Len(games') = Len(games)
    /\ \E sc \in Scores : SnakeGameOver(s, ClientName[s], sc)

\* C11: a snake-game-over report after which the session holds scores of the
\* reporting member only broadcasts no game-over (it emits nothing at all).
C11_OneReporterNoGameOver ==
    [][ \A s \in SocketIds :
          ( /\ InGameOf(s, "snake")
            /\ Len(games') = Len(games)
            /\ \A i \in 1..Len(games'[activeGames[s]].scores) :
                  games'[activeGames[s]].scores[i].id = s
            /\ SnakeReport(s) )
          => /\ emitted' = <<>>
             /\ gameOvers' = gameOvers
      ]_vars

\* one member of a snake session of two connections has reported, and no
\* game-over has been broadcast in the session
C11_Witness ==
    \E ref \in 1..Len(games) :
        /\ games[ref].gameType = "snake"
        /\ Cardinality(Members(ref)) = 2
        /\ Len(games[ref].scores) = 1
        /\ games[ref].scores[1].score = 1
        /\ gameOvers[ref] = 0
        /\ emitted = <<>>

\* C12: a game-over broadcast by a snake-game-over report that leaves the
\* session with two equal scores names the username of the member whose first
\* report came second, and not the one whose first report came first; a
\* report that adds the second score is by that second reporter.
C12_TieToSecondReporter ==
    [][ \A i \in 1..Len(emitted') :
          emitted'[i].event = "game-over" =>
            \A s \in SocketIds :
              ( /\ InGameOf(s, "snake")
                /\ Len(games') = Len(games)
                /\ Len(games'[activeGames[s]].scores) = 2
                /\ games'[activeGames[s]].scores[1].score = games'[activeGames[s]].scores[2].score
                /\ SnakeReport(s) )
              => /\ emitted'[i].payload.winner = games'[activeGames[s]].scores[2].username
                 /\ emitted'[i].payload.winner # games'[activeGames[s]].scores[1].username
                 /\ Len(games[activeGames[s]].scores) = 1
                       => games'[activeGames[s]].scores[2].id = s
                 /\ Len(games[activeGames[s]].scores) = 2
                       => /\ games'[activeGames[s]].scores[1].id = games[activeGames[s]].scores[1].id
                          /\ games'[activeGames[s]].scores[2].id = games[activeGames[s]].scores[2].id
      ]_vars

C12_Witness ==
    \E ref \in 1..Len(games) :
        /\ games[ref].gameType = "snake"
        /\ Len(games[ref].scores) = 2
        /\ games[ref].scores[1].score = games[ref].scores[2].score
        /\ games[ref].scores[1].username # games[ref].scores[2].username
        /\ gameOvers[ref] = 1
        /\ emitted = << [to |-> Members(ref), event |-> "game-over",
                         payload |-> [winner |-> games[ref].scores[2].username,
                                      time |-> Seconds(0)]] >>
\* C13: a player-finished of socket s, handled at time now' for the maze
\* session registered under s, emits one game-over that reaches both members
\* of the session, with the name of s as winner and the time since the
\* session's startTime, which is not negative, in seconds.
C13_MazeWin ==
    [][ \A s \in SocketIds :
          ( /\ InGameOf(s, "maze")
            /\ PlayerFinished(s) )
          => /\ now' >= games[activeGames[s]].startTime
             /\ emitted' = << [to |-> Members(activeGames[s]), event |-> "game-over",
                               payload |-> [winner |-> ClientName[s],
                                            time |-> Seconds(now' - games[activeGames[s]].startTime)]] >>
      ]_vars
\* the member of a gameInfo that was sent playerNumber n in match-found
PlayerOf(ref, n) ==
    IF n = PlayerNumbers.requester THEN games[ref].players[1] ELSE games[ref].players[2]

\* socket s is player 2, and not also player 1, of the pong session it is in
PongPlayerTwo(s) ==
    /\ InGameOf(s, "pong")
    /\ PlayerOf(activeGames[s], 2) = s
    /\ PlayerOf(activeGames[s], 1) # s

\* C14: a pong-update-state sent by player 2 of a pong session is forwarded to
\* no connection.
C14_PongStateFromPlayerOneOnly ==
    [][ \A s \in SocketIds, p \in Payloads :
          ( PongPlayerTwo(s) /\ PongUpdateState(s, p) )
          => \A i \in 1..Len(emitted') : emitted'[i].to = {}
      ]_vars

\* C15: a pong-game-over sent by player 2 of a pong session broadcasts no
\* game-over.
C15_PongGameOverFromPlayerOneOnly ==
    [][ \A s \in SocketIds, w \in Usernames :
          ( PongPlayerTwo(s) /\ PongGameOver(s, w) )
          => /\ \A i \in 1..Len(emitted') : emitted'[i].event # "game-over"
             /\ gameOvers' = gameOvers
      ]_vars
\* C17: the opponent-move relayed for a player-move of socket s is delivered
\* only to connections other than s that are members of the session of s and
\* are themselves registered in that same session.
C17_RelayInsideSession ==
    [][ \A s \in SocketIds, p \in Payloads :
          ( /\ activeGames[s] # NoGame
            /\ PlayerMove(s, p) )
          => \A i \in 1..Len(emitted') : \A x \in emitted'[i].to :
                /\ x # s
                /\ x \in Members(activeGames[s])
                /\ activeGames[x] = activeGames[s]
      ]_vars
\* C18: every socket with a registry entry is a member of the gameInfo stored
\* under it, and every member of that gameInfo has the same gameInfo stored
\* under its own id.
C18_RegistryConsistent ==
    \A k \in SocketIds :
        activeGames[k] # NoGame
        => /\ k \in Members(activeGames[k])
           /\ \A m \in Members(activeGames[k]) : activeGames[m] = activeGames[k]

\* C19: every gameInfo ever created has two different sockets as its players.
C19_TwoDistinctMembers ==
    \A ref \in 1..Len(games) : games[ref].players[1] # games[ref].players[2]

\* C20: two different gameInfo objects, each of two different sockets, never
\* have the same roomId.
C20_RoomIdsDiffer ==
    \A r1, r2 \in 1..Len(games) :
        ( /\ r1 # r2
          /\ Cardinality(Members(r1)) = 2
          /\ Cardinality(Members(r2)) = 2 )
        => games[r1].roomId # games[r2].roomId
\* the gameInfo created last among those that have socket s as a player
LastGame(s) ==
    CHOOSE ref \in 1..Len(games) :
        /\ s \in Members(ref)
        /\ \A r \in 1..Len(games) : s \in Members(r) => r <= ref

\* the username of the player the scores name as winner: player 1 of the
\* gameInfo when player1Score is the winning score, player 2 otherwise
WinnerByScore(ref, c) ==
    IF c.player1Score = WINNING_SCORE
        THEN ClientName[PlayerOf(ref, 1)]
        ELSE ClientName[PlayerOf(ref, 2)]

\* C16: the pong-game-over that the game loop of a client has emitted carries,
\* and the game-over that a member of the pong session has received names, the
\* username of player 1 when the loop reached player1Score = WINNING_SCORE
\* with player2Score below it, and the username of player 2 when it reached
\* player2Score = WINNING_SCORE with player1Score below it; the loop is that
\* of player 1 of the session and exactly one score is at WINNING_SCORE.
C16_PongWinnerByScore ==
    /\ \A s \in SocketIds : \A i \in 1..Len(clients[s].outbox) :
          clients[s].outbox[i].event = "pong-game-over"
          => /\ \E ref \in 1..Len(games) : s \in Members(ref)
             /\ s = PlayerOf(LastGame(s), 1)
             /\ (clients[s].player1Score = WINNING_SCORE) # (clients[s].player2Score = WINNING_SCORE)
             /\ clients[s].player1Score <= WINNING_SCORE
             /\ clients[s].player2Score <= WINNING_SCORE
             /\ clients[s].outbox[i].value = WinnerByScore(LastGame(s), clients[s])
    /\ \A x \in SocketIds :
          clients[x].gameOverInfo # Undefined
          => /\ \E ref \in 1..Len(games) : x \in Members(ref)
             /\ LET a == PlayerOf(LastGame(x), 1)
                IN  /\ (clients[a].player1Score = WINNING_SCORE) # (clients[a].player2Score = WINNING_SCORE)
                    /\ clients[x].gameOverInfo = WinnerByScore(LastGame(x), clients[a])

\* both members of a pong session have received game-over naming player 1,
\* whose loop stands at player1Score = WINNING_SCORE
C16_Witness ==
    \E ref \in 1..Len(games) :
        /\ games[ref].gameType = "pong"
        /\ Cardinality(Members(ref)) = 2
        /\ clients[PlayerOf(ref, 1)].player1Score = WINNING_SCORE
        /\ clients[PlayerOf(ref, 1)].player2Score < WINNING_SCORE
        /\ \A x \in Members(ref) :
              clients[x].gameOverInfo = ClientName[PlayerOf(ref, 1)]
\* C21: the match-found events of a pairing are two, one to each of the two
\* members of the new session, which are two connections; both carry the same
\* roomId, mazeSeed and gameType; each names as opponent the id and the
\* username of the other member; the playerNumbers are 1 and 2.
C21_MatchFoundPair ==
    (\E i \in 1..Len(emitted) : emitted[i].event = "match-found")
    => \E a, b \in SocketIds :
          /\ a # b
          /\ Members(Len(games)) = {a, b}
          /\ Len(emitted) = 2
          /\ emitted[1].event = "match-found" /\ emitted[1].to = {a}
          /\ emitted[2].event = "match-found" /\ emitted[2].to = {b}
          /\ emitted[1].payload.roomId = emitted[2].payload.roomId
          /\ emitted[1].payload.roomId = games[Len(games)].roomId
          /\ emitted[1].payload.mazeSeed = emitted[2].payload.mazeSeed
          /\ emitted[1].payload.gameType = emitted[2].payload.gameType
          /\ emitted[1].payload.gameType = games[Len(games)].gameType
          /\ emitted[1].payload.opponent = [id |-> b, username |-> ClientName[b]]
          /\ emitted[2].payload.opponent = [id |-> a, username |-> ClientName[a]]
          /\ {emitted[1].payload.playerNumber, emitted[2].payload.playerNumber} = {1, 2}

\* C22: a connection that has been sent waiting-for-match is the last entry of
\* the queue of some game type.
C22_WaitingMeansEnqueued ==
    \A i \in 1..Len(emitted) : \A s \in emitted[i].to :
        emitted[i].event = "waiting-for-match"
        => \E g \in GameTypes :
              /\ Len(waitingPlayers[g]) > 0
              /\ waitingPlayers[g][Len(waitingPlayers[g])] = s
\* one of the seven gameplay events of socket s is handled
Gameplay(s) ==
    \/ \E p \in Payloads : PlayerMove(s, p)
    \/ PlayerFinished(s)
    \/ \E p \in Payloads : PongPaddleMove(s, p)
    \/ \E p \in Payloads : PongUpdateState(s, p)
    \/ \E w \in Usernames : PongGameOver(s, w)
    \/ \E p \in Payloads : SnakeUpdateState(s, p)
    \/ \E sc \in Scores : SnakeGameOver(s, ClientName[s], sc)

\* C23: a gameplay event of a connection that has no registry entry emits
\* nothing to any connection and leaves queues, registry, sessions and rooms
\* as they were.
C23_StrayEventIgnored ==
    [][ \A s \in SocketIds :
          ( /\ activeGames[s] = NoGame
            /\ conn' = conn
            /\ requests' = requests
            /\ Gameplay(s) )
          => /\ emitted' = <<>>
             /\ waitingPlayers' = waitingPlayers
             /\ activeGames' = activeGames
             /\ games' = games
             /\ rooms' = rooms
      ]_vars

\* a connection that never asked for a match and has no registry entry, beside
\* a registered session, after a handler that emitted nothing
C23_Witness ==
    \E s \in SocketIds :
        /\ conn[s] = "connected"
        /\ username[s] = Undefined
        /\ activeGames[s] = NoGame
        /\ \E x \in SocketIds : activeGames[x] # NoGame /\ Cardinality(Members(activeGames[x])) = 2
        /\ \A g \in GameTypes : waitingPlayers[g] = <<>>
        /\ emitted = <<>>
\* C24: when a connection that is in a queue and has no registry entry
\* disconnects, nothing is emitted, the registry is unchanged, the connection
\* is in no queue afterwards, and every queue holds its other entries in the
\* order they had.
C24_QueuedAbandonSilent ==
    [][ \A s \in SocketIds :
          ( /\ conn[s] = "connected"
            /\ conn'[s] = "disconnected"
            /\ QueueEntries(s) >= 1
            /\ activeGames[s] = NoGame )
          => /\ emitted' = <<>>
             /\ activeGames' = activeGames
             /\ \A g \in GameTypes :
                   /\ \A i \in 1..Len(waitingPlayers'[g]) : waitingPlayers'[g][i] # s
                   /\ waitingPlayers'[g] = SelectSeq(waitingPlayers[g], LAMBDA p : p # s)
      ]_vars

\* a connection that asked for a match and was never paired has disconnected,
\* nothing was emitted, no session is registered and another connection is
\* still queued
C24_Witness ==
    \E s, x \in SocketIds :
        /\ s # x
        /\ conn[s] = "disconnected"
        /\ username[s] # Undefined
        /\ \A ref \in 1..Len(games) : s \notin Members(ref)
        /\ \A k \in SocketIds : activeGames[k] = NoGame
        /\ waitingPlayers["maze"] = <<x>>
        /\ emitted = <<>>
\* C25: in every step the queue of each game type either loses its front entry
\* to the session a find-match creates for that game type, of which that entry
\* is a member, or loses the entries of a connection that disconnects, or
\* gains one entry at its tail by a find-match, or is unchanged; the entries
\* kept are in the order they had.
C25_LeaveByPairOrDisconnect ==
    [][ \A g \in GameTypes :
          LET queue == waitingPlayers[g]
              after == waitingPlayers'[g]
          IN  IF Len(games') > Len(games) /\ games'[Len(games')].gameType = g
                 THEN /\ requests' = requests + 1
                      /\ queue # <<>>
                      /\ after = Tail(queue)
                      /\ Head(queue) \in {games'[Len(games')].players[1],
                                          games'[Len(games')].players[2]}
                 ELSE IF \E s \in SocketIds : conn[s] = "connected" /\ conn'[s] = "disconnected"
                         THEN \E s \in SocketIds :
                                 /\ conn[s] = "connected" /\ conn'[s] = "disconnected"
                                 /\ after = SelectSeq(queue, LAMBDA p : p # s)
                         ELSE \/ after = queue
                              \/ /\ requests' = requests + 1
                                 /\ \E s \in SocketIds : after = Append(queue, s)
      ]_vars

\* a connection is queued, still, when a player-finished has just been handled
\* in a session of two other connections
C25_Witness ==
    \E ref \in 1..Len(games), x \in SocketIds :
        /\ waitingPlayers["maze"] = <<x>>
        /\ Cardinality(Members(ref)) = 2
        /\ x \notin Members(ref)
        /\ gameOvers[ref] = 1
        /\ Len(emitted) = 1
        /\ emitted[1].event = "game-over"
        /\ emitted[1].to = Members(ref)
\* the relayed payloads the client of socket x has been or will be called
\* with, in the order of the calls
Relayed(x) ==
    LET flying == SelectSeq(clients[x].inbox, LAMBDA m : m.event \in RelayedEvents)
    IN  clients[x].seen \o [i \in 1..Len(flying) |-> flying[i].payload.value]

\* C26: the relayed events that a connection receives from one sender reach it
\* in the order in which that sender sent them, each at most once.
C26_RelayInOrder ==
    \A x, s \in SocketIds :
        LET froms == SelectSeq(Relayed(x), LAMBDA v : v.from = s)
        IN  \A i, j \in 1..Len(froms) : i < j => froms[i].n < froms[j].n

\* the listeners of b were called with the first and then the second move of
\* a, and those of a with the first move of b
C26_Witness ==
    \E a, b \in SocketIds :
        /\ a # b
        /\ clients[b].seen = << [from |-> a, n |-> 1], [from |-> a, n |-> 2] >>
        /\ clients[a].seen = << [from |-> b, n |-> 1] >>
\* call i of generateMaze has returned its maze
Returned(i) == gen.calls[i].pc = "returned"

\* C27: two calls of generateMaze with the same rows, cols and seed return the
\* same wall flags for every cell.
C27_SeededSameMaze ==
    (gen.seed # NoSeed /\ Returned(1) /\ Returned(2))
    => \A cell \in Cells(gen.rows, gen.cols) :
          gen.calls[1].maze[cell].walls = gen.calls[2].maze[cell].walls

\* two seeded calls on the largest grid have returned, the second index of
\* two having been drawn at least once
C27_Witness ==
    /\ gen.seed = 999999
    /\ gen.rows = MaxRows
    /\ gen.cols = MaxCols
    /\ Returned(1)
    /\ Returned(2)
    /\ \E t \in gen.sin : t.max = 2 /\ t.index = 1
    /\ gen.calls[1].maze = gen.calls[2].maze

\* the cells next to cell a to which the wall of a and the facing wall of the
\* other cell are both removed
Passages(maze, a, rows, cols) ==
    {b \in {<<a[1] - 1, a[2]>>, <<a[1], a[2] + 1>>, <<a[1] + 1, a[2]>>, <<a[1], a[2] - 1>>}
              \cap Cells(rows, cols) :
        \/ b = <<a[1] - 1, a[2]>> /\ ~maze[a].walls.top /\ ~maze[b].walls.bottom
        \/ b = <<a[1], a[2] + 1>> /\ ~maze[a].walls.right /\ ~maze[b].walls.left
        \/ b = <<a[1] + 1, a[2]>> /\ ~maze[a].walls.bottom /\ ~maze[b].walls.top
        \/ b = <<a[1], a[2] - 1>> /\ ~maze[a].walls.left /\ ~maze[b].walls.right}

\* the cells that can be reached from the cells of S
RECURSIVE Reach(_, _, _, _)
Reach(maze, S, rows, cols) ==
    LET more == S \cup UNION {Passages(maze, a, rows, cols) : a \in S}
    IN  IF more = S THEN S ELSE Reach(maze, more, rows, cols)

\* C28: in the maze a call of generateMaze returns, every cell can be reached
\* from cell (0,0) through removed walls.
C28_AllReachable ==
    \A i \in 1..2 :
        Returned(i)
        => Reach(gen.calls[i].maze, {<<0, 0>>}, gen.rows, gen.cols) = Cells(gen.rows, gen.cols)

\* a maze of the largest grid has been returned in which some cell has three
\* passages, the third made after backtracking to it
C28_Witness ==
    \E i \in 1..2 :
        /\ Returned(i)
        /\ gen.rows = MaxRows
        /\ gen.cols = MaxCols
        /\ \E a \in Cells(gen.rows, gen.cols) :
              Cardinality(Passages(gen.calls[i].maze, a, gen.rows, gen.cols)) = 3

\* the pairs of adjacent cells between which there is a passage, each pair
\* named by its upper or left cell first
OpenPairs(maze, rows, cols) ==
    {pair \in Cells(rows, cols) \X Cells(rows, cols) :
        /\ pair[2] \in {<<pair[1][1], pair[1][2] + 1>>, <<pair[1][1] + 1, pair[1][2]>>}
        /\ pair[2] \in Passages(maze, pair[1], rows, cols)}

\* the cells marked visited
Visited(maze, rows, cols) == {cell \in Cells(rows, cols) : maze[cell].visited}

\* C29: every call of removeWallBetween in generateMaze opens a wall pair that
\* was closed, one for each cell visited after the first, and there have been
\* rows*cols - 1 of them when generateMaze returns.
C29_SpanningTree ==
    \A i \in 1..2 :
        gen.calls[i].pc # "idle"
        => LET call == gen.calls[i]
           IN  /\ Cardinality(OpenPairs(call.maze, gen.rows, gen.cols)) = call.removed
               /\ Cardinality(Visited(call.maze, gen.rows, gen.cols)) = call.removed + 1
               /\ Returned(i) => call.removed = gen.rows * gen.cols - 1

\* an unseeded call on the largest grid has returned after rows*cols - 1
\* removals
C29_Witness ==
    /\ gen.seed = NoSeed
    /\ gen.rows = MaxRows
    /\ gen.cols = MaxCols
    /\ Returned(1)
    /\ gen.calls[1].removed = MaxRows * MaxCols - 1
    /\ Cardinality(OpenPairs(gen.calls[1].maze, gen.rows, gen.cols)) = MaxRows * MaxCols - 1

\* C30: a call of generateMaze that has entered its loop returns, and when it
\* has returned its stack is empty and every cell is marked visited.
C30_Terminates ==
    /\ [](\A i \in 1..2 :
            Returned(i)
            => /\ gen.calls[i].stack = <<>>
               /\ Visited(gen.calls[i].maze, gen.rows, gen.cols) = Cells(gen.rows, gen.cols))
    /\ \A i \in 1..2 : (gen.calls[i].pc = "loop") ~> Returned(i)

\* a call on the largest grid has returned with its stack empty and every
\* cell visited, after backtracking from a dead end to a cell with a
\* neighbour left
C30_Witness ==
    \E i \in 1..2 :
        /\ Returned(i)
        /\ gen.rows = MaxRows
        /\ gen.cols = MaxCols
        /\ gen.calls[i].stack = <<>>
        /\ Visited(gen.calls[i].maze, gen.rows, gen.cols) = Cells(gen.rows, gen.cols)
        /\ \E a \in Cells(gen.rows, gen.cols) :
              Cardinality(Passages(gen.calls[i].maze, a, gen.rows, gen.cols)) = 3
        /\ gen.seed = 0
\* C31: the username the server holds for a connection, once set by a
\* find-match, is never changed.
C31_NameSetOnce ==
    [][ \A s \in SocketIds :
          username[s] # Undefined => username'[s] = username[s]
      ]_vars
\* socket s is in a session of two connections of another game type than g
InOtherGame(s, g) ==
    /\ activeGames[s] # NoGame
    /\ games[activeGames[s]].gameType # g
    /\ Cardinality(Members(activeGames[s])) = 2

\* C32: a gameplay event of a connection whose session, of two connections,
\* has another game type than the event's is delivered to no connection and
\* changes neither sessions nor registry.
C32_RoutedByGameType ==
    [][ \A s \in SocketIds :
          ( /\ conn' = conn
            /\ requests' = requests
            /\ \/ /\ InOtherGame(s, "maze")
                  /\ \/ \E p \in Payloads : PlayerMove(s, p)
                     \/ PlayerFinished(s)
               \/ /\ InOtherGame(s, "pong")
                  /\ \/ \E p \in Payloads : PongPaddleMove(s, p)
                     \/ \E p \in Payloads : PongUpdateState(s, p)
                     \/ \E w \in Usernames : PongGameOver(s, w)
               \/ /\ InOtherGame(s, "snake")
                  /\ \/ \E p \in Payloads : SnakeUpdateState(s, p)
                     \/ \E sc \in Scores : SnakeGameOver(s, ClientName[s], sc) )
          => /\ \A i \in 1..Len(emitted') : emitted'[i].to = {}
             /\ games' = games
             /\ gameOvers' = gameOvers
             /\ activeGames' = activeGames
      ]_vars
\* C33: when a connection X disconnects, a connection that is registered under
\* a session and is either no member of the session stored under X, or shared
\* with X a session that has already finished and is now registered under
\* another session, keeps its registry entry and is sent nothing.
C33_DisconnectIsolated ==
    [][ \A x \in SocketIds :
          (conn[x] = "connected" /\ conn'[x] = "disconnected")
          => \A k \in SocketIds \ {x} :
                ( /\ activeGames[k] # NoGame
                  /\ \/ activeGames[x] = NoGame
                     \/ k \notin Members(activeGames[x])
                     \/ /\ gameOvers[activeGames[x]] > 0
                        /\ activeGames[k] # activeGames[x] )
                => /\ activeGames'[k] = activeGames[k]
                   /\ \A i \in 1..Len(emitted') : k \notin emitted'[i].to
      ]_vars

\* C34: every queue entry and every member of a session that is stored under
\* some registry key is a connected connection.
C34_OnlyConnected ==
    /\ \A g \in GameTypes : \A i \in 1..Len(waitingPlayers[g]) :
          conn[waitingPlayers[g][i]] = "connected"
    /\ \A k \in SocketIds :
          activeGames[k] # NoGame
          => \A m \in Members(activeGames[k]) : conn[m] = "connected"
\* C35: every game type's matchmaking queue holds at most one entry.
C35_QueueAtMostOne ==
    \A g \in GameTypes : Len(waitingPlayers[g]) <= 1

\* a third request for a game type finds the queue empty again and waits alone
C35_Witness ==
    \E g \in GameTypes :
        /\ Len(waitingPlayers[g]) = 1
        /\ \E ref \in 1..Len(games) :
              /\ games[ref].gameType = g
              /\ waitingPlayers[g][1] \notin Members(ref)
        /\ requests >= 3
\* the game type of the latest find-match of connection s, Undefined if none
LatestRequest(s) ==
    LET mine == {i \in 1..Len(hist.events) : hist.events[i].socket = s}
    IN  IF mine = {} THEN Undefined
        ELSE hist.events[CHOOSE i \in mine : \A j \in mine : j <= i].gameType

\* C36: when a find-match has just created a session, the latest find-match
\* of both of its members requested the session's gameType.
C36_PairedWithinType ==
    ( /\ ~hist.more
      /\ Len(games) > 0
      /\ \E i \in 1..Len(emitted) : emitted[i].event = "match-found" )
    => \A m \in Members(Len(games)) :
          LatestRequest(m) = games[Len(games)].gameType
\* the facing walls of orthogonally adjacent cells agree
WallsPaired(maze, rows, cols) ==
    \A cell \in Cells(rows, cols) :
        /\ cell[2] < cols - 1
           => maze[cell].walls.right = maze[<<cell[1], cell[2] + 1>>].walls.left
        /\ cell[1] < rows - 1
           => maze[cell].walls.bottom = maze[<<cell[1] + 1, cell[2]>>].walls.top

\* every wall on the outer boundary of the grid is present
BoundaryWalled(maze, rows, cols) ==
    \A cell \in Cells(rows, cols) :
        /\ cell[1] = 0 => maze[cell].walls.top
        /\ cell[1] = rows - 1 => maze[cell].walls.bottom
        /\ cell[2] = 0 => maze[cell].walls.left
        /\ cell[2] = cols - 1 => maze[cell].walls.right

\* C37: during and after generation the facing walls of adjacent cells are
\* absent together or present together, and in the returned maze every wall
\* on the outer boundary is present.
C37_WallsConsistent ==
    \A i \in 1..2 :
        /\ gen.calls[i].pc # "idle"
           => WallsPaired(gen.calls[i].maze, gen.rows, gen.cols)
        /\ Returned(i)
           => BoundaryWalled(gen.calls[i].maze, gen.rows, gen.cols)

\* a returned maze with a passage to the right and a passage downwards
C37_Witness ==
    \E i \in 1..2 :
        /\ Returned(i)
        /\ gen.rows = MaxRows
        /\ gen.cols = MaxCols
        /\ \E a, b \in Cells(gen.rows, gen.cols) :
              /\ a[2] < gen.cols - 1
              /\ b[1] < gen.rows - 1
              /\ ~gen.calls[i].maze[a].walls.right
              /\ ~gen.calls[i].maze[<<a[1], a[2] + 1>>].walls.left
              /\ ~gen.calls[i].maze[b].walls.bottom
              /\ ~gen.calls[i].maze[<<b[1] + 1, b[2]>>].walls.top
\* the members of gameInfo ref whose client runs the simulation loop
Owners(ref) == {m \in Members(ref) : IsPlayer1(clients[m])}

\* C38: every registered pong session has exactly one member whose client has
\* playerNumber 1, and a client that has another playerNumber has emitted
\* nothing that waits to be handled.
C38_OneStateOwner ==
    \A ref \in 1..Len(games) :
        (games[ref].gameType = "pong" /\ Registered(ref))
        => /\ Cardinality(Owners(ref)) = 1
           /\ \A m \in Members(ref) \ Owners(ref) : clients[m].outbox = <<>>
\* ------------------------------------------------------- maze game client
\* MazeGame: generateMaze(20, 25, ...) gives goalPosition (rows - 1, cols - 1)
StartPosition == <<0, 0>>
GoalPosition == <<20 - 1, 25 - 1>>
\* the cells a run of moves of the player ends at: the start, a cell next to
\* it, the goal
Positions == {StartPosition, <<0, 1>>, GoalPosition}

\* the goal check effect: if (gameOver) return; if (playerWon) ...
PlayerWonAgain(c) == c.playerPosition = GoalPosition
PlayerWon(c) == ~c.mazeGameOver /\ c.playerPosition = GoalPosition

\* the goal check effect, run after every render: sendFinish(); setGameOver(true)
GoalEffect(c) ==
    IF PlayerWon(c)
        THEN [c EXCEPT !.outbox = Append(@, [event |-> "player-finished", value |-> NoPayload]),
                       !.finishes = Append(@, c.playerPosition),
                       !.mazeGameOver = TRUE]
        ELSE c

\* if (gameOverInfo) { setGameOver(true); setWinner(gameOverInfo.winner); }
GameOverInfoEffect(c) ==
    IF c.gameOverInfo # Undefined
        THEN [c EXCEPT !.mazeGameOver = TRUE, !.winner = c.gameOverInfo]
        ELSE c

\* if (opponentDisconnected) { setGameOver(true); setWinner(username); }
OpponentDisconnectedEffect(c, name) ==
    IF c.opponentDisconnected
        THEN [c EXCEPT !.mazeGameOver = TRUE, !.winner = name]
        ELSE c

\* WaitingForOpponent sees matchInfo, App shows GameScreen and MazeGame mounts:
\* its state is the initial one and all its effects run
MazeGameMounted(c, name) ==
    OpponentDisconnectedEffect(
        GameOverInfoEffect(
            GoalEffect([c EXCEPT !.gameState = "playing",
                                 !.playerPosition = StartPosition,
                                 !.mazeGameOver = FALSE,
                                 !.winner = Undefined,
                                 !.finishes = <<>>])),
        name)

\* the client of a player named name receives event m: the listener of
\* WebSocketContext sets its state, and the components that are mounted render
\* and run the effects whose dependencies have changed
MazeReceive(c, m, name) ==
    LET d == Receive(c, m)
    IN  IF d.gameState = "waiting"
           THEN IF m.event = "match-found" THEN MazeGameMounted(d, name) ELSE d
           ELSE IF d.gameState = "playing"
                   THEN CASE m.event = "game-over" -> GameOverInfoEffect(GoalEffect(d))
                          [] m.event = "opponent-disconnected" ->
                                IF c.opponentDisconnected
                                    THEN d
                                    ELSE OpponentDisconnectedEffect(GoalEffect(d), name)
                          [] OTHER -> GoalEffect(d)
                   ELSE d

\* the events of em received, in order, by the clients they were sent to
RECURSIVE MazeDelivered(_, _)
MazeDelivered(cs, em) ==
    IF em = <<>>
        THEN cs
        ELSE MazeDelivered([x \in SocketIds |->
                               IF x \in Head(em).to
                                   THEN MazeReceive(cs[x], Head(em), ClientName[x])
                                   ELSE cs[x]],
                           Tail(em))

\* App handleUsernameSubmit
UsernameSubmit(s) ==
    /\ clients[s].gameState = "username"
    /\ clients' = [clients EXCEPT ![s].gameState = "game-selection"]
    /\ UNCHANGED <<conn, username, rooms, waitingPlayers, activeGames, games,
                   now, emitted, requests, gameOvers, hist>>

\* App handleGameSelect for the maze game, and the server's find-match handler
GameSelect(s) ==
    /\ clients[s].gameState = "game-selection"
    /\ FindMatch(s, ClientName[s], "maze")
    /\ clients' = MazeDelivered([clients EXCEPT ![s].gameState = "waiting"], emitted')

\* MazeGame handlePlayerMove, called by Maze (isActive is true while the maze
\* is shown, that is unless gameOver && winner), and the render after it
MazeMove(s, position) ==
    LET c == clients[s]
    IN  /\ conn[s] = "connected"
        /\ c.gameState = "playing"
        /\ ~(c.mazeGameOver /\ c.winner # Undefined)
        /\ position # c.playerPosition
        /\ clients' = [clients EXCEPT ![s] =
                          GoalEffect([c EXCEPT
                                         !.playerPosition = position,
                                         !.sent = @ + 1,
                                         !.outbox = Append(@, [event |-> "player-move",
                                                               value |-> position])])]
        /\ UNCHANGED <<conn, username, rooms, waitingPlayers, activeGames, games,
                       now, emitted, requests, gameOvers, hist>>

\* MazeGame handlePlayAgain on the result screen: resetGame(); onGameEnd()
PlayAgain(s) ==
    LET c == clients[s]
    IN  /\ c.gameState = "playing"
        /\ c.mazeGameOver
        /\ c.winner # Undefined
        /\ clients' = [clients EXCEPT ![s] =
                          [c EXCEPT !.matchInfo = ClientInit.matchInfo,
                                    !.gameOverInfo = Undefined,
                                    !.opponentDisconnected = FALSE,
                                    !.gameState = "game-selection",
                                    !.playerPosition = StartPosition,
                                    !.mazeGameOver = FALSE,
                                    !.winner = Undefined,
                                    !.finishes = <<>>]]
        /\ UNCHANGED <<conn, username, rooms, waitingPlayers, activeGames, games,
                       now, emitted, requests, gameOvers, hist>>

\* the server handles the oldest event emitted by the client of socket s, and
\* the clients receive what the handler emits
ServeMaze(s) ==
    /\ clients[s].outbox # <<>>
    /\ LET m == Head(clients[s].outbox)
       IN  IF m.event = "player-finished"
              THEN PlayerFinished(s)
              ELSE PlayerMove(s, m.value)
    /\ clients' = MazeDelivered([clients EXCEPT ![s].outbox = Tail(@)], emitted')

\* the maze game played by the clients
MazeClient ==
    \/ \E i \in 1..Len(Sockets) : Connect(i) /\ UNCHANGED <<clients, gen>>
    \/ \E s \in SocketIds : UsernameSubmit(s) /\ UNCHANGED gen
    \/ \E s \in SocketIds : requests < MaxClientRequests /\ GameSelect(s) /\ UNCHANGED gen
    \/ \E s \in SocketIds, position \in Positions :
          Sent(SocketIds) < MaxMoves /\ MazeMove(s, position) /\ UNCHANGED gen
    \/ \E s \in SocketIds : PlayAgain(s) /\ UNCHANGED gen
    \/ \E s \in SocketIds : ServeMaze(s) /\ UNCHANGED gen
    \/ \E s \in SocketIds :
          /\ Disconnect(s)
          /\ clients' = MazeDelivered([clients EXCEPT ![s].outbox = <<>>], emitted')
          /\ UNCHANGED gen

SpecMazeClient == Init /\ [][MazeClient]_vars

\* C39: a mounted MazeGame has emitted player-finished at most once, with its
\* own position at the goal cell, and once it has its gameOver flag is set.
C39_FinishedOnceAtGoal ==
    \A s \in SocketIds :
        LET c == clients[s]
        IN  /\ Len(c.finishes) <= 1
            /\ \A i \in 1..Len(c.finishes) : c.finishes[i] = GoalPosition
            /\ Len(c.finishes) = 1 => c.mazeGameOver

\* a player that has reached the goal, moved on and then received game-over
C39_Witness ==
    \E s \in SocketIds :
        /\ clients[s].finishes = <<GoalPosition>>
        /\ clients[s].playerPosition # GoalPosition
        /\ clients[s].gameOverInfo # Undefined
        /\ clients[s].winner # Undefined
=============================================================================
